---- MODULE Spec2Model ----
(***************************************************************************)
(* BackupManager (Src/base/BackupManager.cpp): the backup/restore          *)
(* participant of WebAppMgr.  The model holds the singleton's fields, the  *)
(* part of the service bus and of the filesystem the code talks to, and    *)
(* one action per method of the class.  Calls into luna-service2, GLib and *)
(* json-c are modelled by their documented results; where a call can fail, *)
(* its result is an input of the action.  Allocation is taken to fail only *)
(* where the code tests for it (the response object of preBackupCallback). *)
(***************************************************************************)
EXTENDS Naturals, Sequences, FiniteSets

\* ------------------------------------------------------------------ bounds
\* init calls explored in one behaviour
MaxInitCalls == 3
\* longest "files" array of a postRestore payload
MaxFiles == 2

\* --------------------------------------------------------------- constants
NULL == "NULL"
Loops == {"loopA"}
strCookieAppId == "com.palm.luna-sysmgr.cookies"
strCookieTempFile == "/tmp/com.palm.luna-sysmgr.cookies-html5-backup.sql"
BackupServiceName == "com.palm.appDataBackup"
BackupDescription == "Backup of LunaSysMgr files for launcher, quicklaunch, dockmode and sysmgr cookies"
BackupVersion == "1.0"
\* the table of methods init binds under category "/"
s_BackupServerMethods == {"preBackup", "postRestore"}

VARIABLES
    s_instance,              \* BackupManager::s_instance: NULL or the object
    m_mainLoop,              \* fields of the singleton
    m_clientService,
    m_serverService,
    m_strBackupServiceName,
    m_doBackupFiles,
    m_doBackupCookies,
    busName,                 \* the bus: name held by this process
    busMethods,              \* methods bound under "/" on the service
    busAttached,             \* the service's message pump is on a main loop
    cookieFile,              \* what is at strCookieTempFile on disk
    aborted,                 \* luna_assert failed: the process is gone
    lastOp,                  \* the operation that ran last
    lastRequest,             \* its inputs
    lastReturn,              \* what it returned
    replyAttempts,           \* the LSMessageReply calls it made
    lastLog,                 \* the last line it wrote to the log
    initCalls,               \* calls of init so far
    regCalls,                \* of these, those that reached LSRegisterPalmService
    lastBackup               \* the latest preBackup call, and what happened since

object == <<m_mainLoop, m_clientService, m_serverService, m_strBackupServiceName,
            m_doBackupFiles, m_doBackupCookies>>
bus == <<busName, busMethods, busAttached>>
vars == <<s_instance, object, bus, cookieFile, aborted, lastOp, lastRequest,
          lastReturn, replyAttempts, lastLog, initCalls, regCalls, lastBackup>>

\* ----------------------------------------------------------------- values
\* JSON payloads of a bus message.  json: "none" (no payload), "invalid" (not
\* JSON) or "object"; files: the type of the object's "files" member and, for
\* an array, its elements (by JSON type).
ElemTypes == {"string", "number"}
Arrays == UNION {[1..n -> ElemTypes] : n \in 0..MaxFiles}
Payload(j, t, e) == [json |-> j, files |-> t, elems |-> e]
Payloads ==
    {Payload("none", "absent", <<>>), Payload("invalid", "absent", <<>>)}
    \cup {Payload("object", t, <<>>) : t \in {"absent", "string", "number", "object"}}
    \cup {Payload("object", "array", a) : a \in Arrays}

\* what can be at a path: nothing, a regular file, a directory, or a symbolic
\* link whose target does not exist
FileKinds == {"absent", "regular", "directory", "dangling"}

NoRequest == [payload |-> Payload("none", "absent", <<>>), allocOk |-> TRUE, status |-> <<>>]
NoBackup == [replied |-> FALSE, body |-> <<>>, fsChanged |-> FALSE, repeated |-> FALSE]

Init ==
    /\ s_instance = NULL
    /\ m_mainLoop = NULL
    /\ m_clientService = NULL
    /\ m_serverService = NULL
    /\ m_strBackupServiceName = ""
    /\ m_doBackupFiles \in BOOLEAN
    /\ m_doBackupCookies \in BOOLEAN
    /\ busName = FALSE
    /\ busMethods = {}
    /\ busAttached = FALSE
    /\ cookieFile \in FileKinds
    /\ aborted = FALSE
    /\ lastOp = "none"
    /\ lastRequest = NoRequest
    /\ lastReturn = "none"
    /\ replyAttempts = <<>>
    /\ lastLog = "none"
    /\ initCalls = 0
    /\ regCalls = 0
    /\ lastBackup = NoBackup

\* ------------------------------------------------------- library results
\* LSRegisterPalmService: the name is granted unless it is taken, by another
\* process (free = FALSE) or by this one
LSRegisterPalmService(free) == free /\ ~busName
\* LSGmainAttachPalmService: refuses a NULL main loop
LSGmainAttachPalmService(mainLoop, ok) == ok /\ mainLoop # NULL
\* g_file_test's single tests; both follow symbolic links
FileTestHolds(test, kind) ==
    IF test = "G_FILE_TEST_EXISTS" THEN kind \in {"regular", "directory"}
    ELSE IF test = "G_FILE_TEST_IS_REGULAR" THEN kind = "regular"
    ELSE FALSE
\* g_file_test(path, tests): TRUE if ANY of the tests of the bitfield is TRUE
g_file_test(kind, tests) == \E t \in tests : FileTestHolds(t, kind)
\* the bitfield preBackupCallback passes
fileTest == {"G_FILE_TEST_EXISTS", "G_FILE_TEST_IS_REGULAR"}

\* VALIDATE_SCHEMA_AND_RETURN(..., SCHEMA_1(REQUIRED(files, array))): the
\* payload is a JSON object with a member "files" that is an array
ValidSchema(payload) == payload.json = "object" /\ payload.files = "array"
\* the reply the validation macro sends when the payload does not validate
SchemaErrorBody == [returnValue |-> FALSE, errorText |-> "schema"]
\* LSMessageGetPayload(message) is NULL when the message has no payload
LSMessageGetPayload(payload) == IF payload.json = "none" THEN NULL ELSE "str"

\* one LSMessageReply call: the body, and whether the bus took it
Attempt(body, sendOk) == [body |-> body, delivered |-> sendOk]

\* --------------------------------------------------------------- operations
\* BackupManager::BackupManager()
Constructor ==
    /\ m_mainLoop' = NULL
    /\ m_clientService' = NULL
    /\ m_serverService' = NULL
    /\ UNCHANGED <<m_strBackupServiceName, m_doBackupFiles, m_doBackupCookies>>

\* BackupManager::instance(): the first call constructs the singleton
instance ==
    /\ ~aborted
    /\ IF s_instance = NULL THEN Constructor ELSE UNCHANGED object
    /\ s_instance' = "obj"
    /\ lastOp' = "instance"
    /\ lastRequest' = NoRequest
    /\ lastReturn' = "obj"
    /\ replyAttempts' = <<>>
    /\ lastLog' = "none"
    /\ UNCHANGED <<bus, cookieFile, aborted, initCalls, regCalls, lastBackup>>

\* luna_assert(m_mainLoop == NULL): the guard of init
OnlyInitializeOnce == m_mainLoop = NULL

\* BackupManager::init(mainLoop).  free, catOk, attachOk, privOk: whether the
\* bus grants the name, registers the category, attaches to the loop and
\* hands out the private connection.
init(mainLoop, free, catOk, attachOk, privOk) ==
    LET reg == LSRegisterPalmService(free)
        cat == reg /\ catOk
        att == cat /\ LSGmainAttachPalmService(mainLoop, attachOk)
        priv == att /\ privOk
    IN
    /\ ~aborted
    /\ s_instance # NULL
    /\ initCalls < MaxInitCalls
    /\ initCalls' = initCalls + 1
    /\ lastOp' = "init"
    /\ IF ~OnlyInitializeOnce
       THEN /\ aborted' = TRUE
            /\ lastReturn' = "abort"
            /\ lastLog' = "FAILED ASSERT"
            /\ UNCHANGED <<object, bus, regCalls>>
       ELSE /\ aborted' = FALSE
            /\ m_mainLoop' = mainLoop
            /\ m_strBackupServiceName' = BackupServiceName
            /\ m_doBackupFiles' = TRUE
            /\ m_doBackupCookies' = TRUE
            /\ regCalls' = regCalls + 1
            /\ busName' = (busName \/ reg)
            /\ m_serverService' = IF reg THEN "palmService" ELSE m_serverService
            /\ busMethods' = IF cat THEN s_BackupServerMethods ELSE busMethods
            /\ busAttached' = (busAttached \/ att)
            /\ m_clientService' = IF att THEN (IF privOk THEN "private" ELSE NULL)
                                  ELSE m_clientService
            /\ lastReturn' = IF priv THEN "true" ELSE "false"
            /\ lastLog' = IF ~reg THEN "Failed registering on service bus"
                          ELSE IF ~cat THEN "Failed registering with service bus category"
                          ELSE IF ~att THEN "Failed attaching to service bus"
                          ELSE IF ~priv THEN "unable to get private handle to the backup service"
                          ELSE "none"
    /\ lastRequest' = NoRequest
    /\ replyAttempts' = <<>>
    /\ UNCHANGED <<s_instance, cookieFile, lastBackup>>

\* the bus delivers a request to a handler only once the methods are bound
\* and the service is attached to a running loop
CanDispatch(method) == ~aborted /\ method \in busMethods /\ busAttached

\* preBackupCallback, lines 220-232: the "files" member of the response
preBackupFiles(doBackupCookies, kind) ==
    IF doBackupCookies /\ g_file_test(kind, fileTest)
    THEN <<strCookieTempFile>>
    ELSE <<>>

\* as preBackupResponse, but the manifest lists files only for a request whose
\* payload parsed as a JSON object
preBackupResponse_ParsesPayload(doBackupCookies, kind, payload) ==
    [description |-> BackupDescription,
     version |-> BackupVersion,
     files |-> IF payload.json = "object" THEN preBackupFiles(doBackupCookies, kind)
               ELSE <<>>]

\* preBackupCallback, lines 211-232: the response object
preBackupResponse(doBackupCookies, kind, payload) ==
    [description |-> BackupDescription,
     version |-> BackupVersion,
     files |-> preBackupFiles(doBackupCookies, kind)]

\* as preBackupReplies, but an empty manifest is not sent
preBackupReplies_SkipsEmpty(doBackupCookies, kind, payload, allocOk, sendOk) ==
    IF ~allocOk \/ preBackupFiles(doBackupCookies, kind) = <<>> THEN <<>>
    ELSE <<Attempt(preBackupResponse(doBackupCookies, kind, payload), sendOk)>>

\* as preBackupReplies, but a reply the bus refused is sent again
preBackupReplies_Retries(doBackupCookies, kind, payload, allocOk, sendOk) ==
    IF ~allocOk THEN <<>>
    ELSE IF sendOk THEN <<Attempt(preBackupResponse(doBackupCookies, kind, payload), TRUE)>>
    ELSE <<Attempt(preBackupResponse(doBackupCookies, kind, payload), FALSE),
           Attempt(preBackupResponse(doBackupCookies, kind, payload), FALSE)>>

\* preBackupCallback, lines 211-241: the LSMessageReply calls it makes
preBackupReplies(doBackupCookies, kind, payload, allocOk, sendOk) ==
    IF ~allocOk THEN <<>>
    ELSE <<Attempt(preBackupResponse(doBackupCookies, kind, payload), sendOk)>>

\* BackupManager::preBackupCallback.  allocOk: json_object_new_object gave an
\* object; sendOk: LSMessageReply succeeded.
preBackupCallback(payload, allocOk, sendOk) ==
    /\ CanDispatch("preBackup")
    /\ lastOp' = "preBackup"
    /\ lastRequest' = [payload |-> payload, allocOk |-> allocOk, status |-> <<>>]
    /\ replyAttempts' = preBackupReplies(m_doBackupCookies, cookieFile, payload, allocOk, sendOk)
    /\ lastReturn' = "true"
    /\ lastLog' = IF ~allocOk THEN "Unable to allocate json object"
                  ELSE IF ~sendOk THEN "Can't send reply to preBackupCallback"
                  ELSE "Sending response to preBackupCallback"
    /\ lastBackup' = [replied |-> allocOk,
                      body |-> IF allocOk
                               THEN preBackupResponse(m_doBackupCookies, cookieFile, payload)
                               ELSE <<>>,
                      fsChanged |-> FALSE,
                      repeated |-> allocOk /\ lastBackup.replied /\ ~lastBackup.fsChanged]
    /\ UNCHANGED <<s_instance, object, bus, cookieFile, aborted, initCalls, regCalls>>

\* as postRestoreReplies, but a failed validation does not return: the
\* handler goes on to the acknowledgment
postRestoreReplies_FallsThrough(payload, sendOk) ==
    IF LSMessageGetPayload(payload) = NULL THEN <<Attempt(SchemaErrorBody, sendOk)>>
    ELSE IF ~ValidSchema(payload)
    THEN <<Attempt(SchemaErrorBody, sendOk), Attempt([returnValue |-> TRUE], sendOk)>>
    ELSE <<Attempt([returnValue |-> TRUE], sendOk)>>

\* as postRestoreReplies, but the acknowledgment is sent only when every
\* element of "files" is a string
postRestoreReplies_ChecksElements(payload, sendOk) ==
    IF ~ValidSchema(payload) THEN <<Attempt(SchemaErrorBody, sendOk)>>
    ELSE IF LSMessageGetPayload(payload) = NULL THEN <<>>
    ELSE IF \E i \in 1..Len(payload.elems) : payload.elems[i] # "string"
    THEN <<Attempt(SchemaErrorBody, sendOk)>>
    ELSE <<Attempt([returnValue |-> TRUE], sendOk)>>

\* postRestoreCallback, lines 305-326: the LSMessageReply calls it makes
postRestoreReplies(payload, sendOk) ==
    IF ~ValidSchema(payload) THEN <<Attempt(SchemaErrorBody, sendOk)>>
    ELSE IF LSMessageGetPayload(payload) = NULL THEN <<>>
    ELSE <<Attempt([returnValue |-> TRUE], sendOk)>>

\* BackupManager::postRestoreCallback
postRestoreCallback(payload, sendOk) ==
    /\ CanDispatch("postRestore")
    /\ lastOp' = "postRestore"
    /\ lastRequest' = [payload |-> payload, allocOk |-> TRUE, status |-> <<>>]
    /\ replyAttempts' = postRestoreReplies(payload, sendOk)
    /\ lastReturn' = "true"
    /\ lastLog' = IF ~ValidSchema(payload) THEN "schema validation failed"
                  ELSE IF LSMessageGetPayload(payload) = NULL THEN "none"
                  ELSE IF ~sendOk THEN "Can't send reply to postRestoreCallback"
                  ELSE "Sending response to postRestoreCallback"
    /\ UNCHANGED <<s_instance, object, bus, cookieFile, aborted, initCalls, regCalls,
                   lastBackup>>

\* Palm::DbBackupStatus records handed to the observers
Statuses == [url : {strCookieAppId}, err : {0, 1}]

\* as Observer, but the observer of a finished restore switches the cookie
\* backup off
Observer_ClearsFlag(name, line, status) ==
    /\ ~aborted
    /\ s_instance # NULL
    /\ lastOp' = name
    /\ lastRequest' = [payload |-> Payload("none", "absent", <<>>), allocOk |-> TRUE,
                       status |-> <<status.url, status.err>>]
    /\ lastReturn' = "void"
    /\ lastLog' = line
    /\ replyAttempts' = <<>>
    /\ m_doBackupCookies' = IF name = "dbRestoreStopped" THEN FALSE ELSE m_doBackupCookies
    /\ UNCHANGED <<s_instance, m_mainLoop, m_clientService, m_serverService,
                   m_strBackupServiceName, m_doBackupFiles, bus, cookieFile, aborted,
                   initCalls, regCalls, lastBackup>>

\* the four observers: one log line each
Observer(name, line, status) ==
    /\ ~aborted
    /\ s_instance # NULL
    /\ lastOp' = name
    /\ lastRequest' = [payload |-> Payload("none", "absent", <<>>), allocOk |-> TRUE,
                       status |-> <<status.url, status.err>>]
    /\ lastReturn' = "void"
    /\ lastLog' = line
    /\ replyAttempts' = <<>>
    /\ UNCHANGED <<s_instance, object, bus, cookieFile, aborted, initCalls, regCalls,
                   lastBackup>>

dbDumpStarted(status) == Observer("dbDumpStarted", "Started database dump", status)

dbDumpStopped(status) == Observer("dbDumpStopped", "Stopped database dump", status)

dbRestoreStarted(status) == Observer("dbRestoreStarted", "Started restore of", status)

dbRestoreStopped(status) == Observer("dbRestoreStopped", "Stopped restore of", status)

\* the environment puts something else at strCookieTempFile
FsChange(kind) ==
    /\ ~aborted
    /\ kind # cookieFile
    /\ cookieFile' = kind
    /\ lastOp' = "fsChange"
    /\ lastBackup' = [lastBackup EXCEPT !.fsChanged = TRUE]
    /\ lastRequest' = NoRequest
    /\ lastReturn' = "none"
    /\ replyAttempts' = <<>>
    /\ lastLog' = "none"
    /\ UNCHANGED <<s_instance, object, bus, aborted, initCalls, regCalls>>

Next ==
    \/ instance
    \/ \E l \in Loops \cup {NULL}, free, catOk, attachOk, privOk \in BOOLEAN :
           init(l, free, catOk, attachOk, privOk)
    \/ \E p \in Payloads, allocOk, sendOk \in BOOLEAN : preBackupCallback(p, allocOk, sendOk)
    \/ \E p \in Payloads, sendOk \in BOOLEAN : postRestoreCallback(p, sendOk)
    \/ \E st \in Statuses : dbDumpStarted(st)
    \/ \E st \in Statuses : dbDumpStopped(st)
    \/ \E st \in Statuses : dbRestoreStarted(st)
    \/ \E st \in Statuses : dbRestoreStopped(st)
    \/ \E k \in FileKinds : FsChange(k)

Spec == Init /\ [][Next]_vars

\* ------------------------------------------------------------------ claims
AckBody == [returnValue |-> TRUE]
Bodies == {replyAttempts[i].body : i \in 1..Len(replyAttempts)}
\* the shape { files: array }
HasFilesArray(p) == p.json = "object" /\ p.files = "array"
Observers == {"dbDumpStarted", "dbDumpStopped", "dbRestoreStarted", "dbRestoreStopped"}

\* C1: a postRestore request whose payload is not of the shape { files: array }
\* is answered with the schema error, and the acknowledgment is not sent.
C1_MalformedGetsSchemaError ==
    (lastOp = "postRestore" /\ ~HasFilesArray(lastRequest.payload))
        => (Bodies = {SchemaErrorBody} /\ AckBody \notin Bodies)

C1_Witness ==
    /\ lastOp = "postRestore"
    /\ lastRequest.payload = Payload("object", "string", <<>>)
    /\ Bodies = {SchemaErrorBody}

\* C2: a postRestore request whose "files" is an array, whatever its elements,
\* is answered with exactly one reply, the acknowledgment { returnValue: true }.
C2_ValidGetsAck ==
    (lastOp = "postRestore" /\ HasFilesArray(lastRequest.payload))
        => (Len(replyAttempts) = 1 /\ replyAttempts[1].body = AckBody)

C2_Witness ==
    /\ lastOp = "postRestore"
    /\ lastRequest.payload = Payload("object", "array", <<"number">>)
    /\ replyAttempts = <<Attempt(AckBody, TRUE)>>

\* C3 (as stated): the "files" of a preBackup response is the one cookie path
\* exactly when the cookies flag is set and the path is a regular file, and is
\* empty otherwise.
C3_FilesIffRegularFile ==
    (lastOp = "preBackup" /\ replyAttempts # <<>>)
        => replyAttempts[1].body.files =
               IF m_doBackupCookies /\ cookieFile = "regular"
               THEN <<strCookieTempFile>> ELSE <<>>

\* C4: a preBackup request gets one reply attempt carrying the fixed
\* description and version "1.0", unless the response object could not be
\* allocated, and then no reply at all.
C4_AlwaysRepliesUnlessAllocFails ==
    lastOp = "preBackup" =>
        IF lastRequest.allocOk
        THEN /\ Len(replyAttempts) = 1
             /\ replyAttempts[1].body.description = BackupDescription
             /\ replyAttempts[1].body.version = "1.0"
        ELSE replyAttempts = <<>>

C4_Witness ==
    /\ lastOp = "preBackup"
    /\ lastRequest.payload = Payload("invalid", "absent", <<>>)
    /\ Len(replyAttempts) = 1
    /\ replyAttempts[1].body.files = <<>>
    /\ replyAttempts[1].body.version = "1.0"

\* C5 (as stated): an init that returns false leaves nothing registered: no
\* name on the bus, no handlers bound, no loop attached, no service handle kept.
C5_FailedInitLeavesNothingRegistered ==
    (lastOp = "init" /\ lastReturn = "false")
        => (~busName /\ busMethods = {} /\ ~busAttached /\ m_serverService = NULL)

\* C6 (as stated): an init call on an instance whose earlier init registered
\* the service stops at the assertion and never reaches the registration step.
C6_InitializedNeverRegistersAgain ==
    [][(busName /\ lastOp' = "init" /\ initCalls' # initCalls)
        => regCalls' = regCalls]_vars

\* C7: a preBackup call that follows a preBackup call with no filesystem change
\* in between sends the same response, whatever was handled between the two.
C7_PreBackupIdempotent ==
    [][(lastOp' = "preBackup" /\ lastBackup.replied /\ ~lastBackup.fsChanged
            /\ lastBackup'.replied)
        => lastBackup'.body = lastBackup.body]_vars

C7_Witness ==
    /\ lastOp = "preBackup"
    /\ lastBackup.repeated
    /\ lastRequest.payload = Payload("object", "absent", <<>>)
    /\ lastBackup.body.files = <<strCookieTempFile>>

\* C8: a lifecycle callback changes neither the singleton, nor its fields, nor
\* the bus registration, nor the filesystem, and sends no reply.
C8_ObserversChangeNothing ==
    [][lastOp' \in Observers
        => (UNCHANGED <<s_instance, object, bus, cookieFile, aborted, lastBackup>>
            /\ replyAttempts' = <<>>)]_vars

C8_Witness ==
    /\ lastOp = "dbRestoreStopped"
    /\ lastRequest.status = <<strCookieAppId, 1>>
    /\ CanDispatch("preBackup")
    /\ m_doBackupCookies

\* C9 (as stated): in every state the participant is either fully unregistered
\* or fully registered.
FullyUnregistered ==
    ~busName /\ busMethods = {} /\ ~busAttached /\ m_serverService = NULL
        /\ m_clientService = NULL
FullyRegistered ==
    busName /\ busMethods = s_BackupServerMethods /\ busAttached
        /\ m_serverService # NULL /\ m_clientService # NULL
C9_TwoSteadyStates == FullyUnregistered \/ FullyRegistered

\* C10: a handler makes at most one reply attempt per request, also when the
\* bus refuses the reply, and returns true on every path.
C10_AtMostOneReplyReturnsTrue ==
    lastOp \in {"preBackup", "postRestore"}
        => (Len(replyAttempts) <= 1 /\ lastReturn = "true")

C10_Witness ==
    /\ lastOp = "postRestore"
    /\ Len(replyAttempts) = 1
    /\ ~replyAttempts[1].delivered
    /\ lastReturn = "true"
====
